---- MODULE Spec2Model ----
(***************************************************************************)
(* A model of depot (github.com/adonSh/depot): the libdepot storage and    *)
(* encryption engine over its sqlite3 database.                            *)
(*                                                                         *)
(* The database is the shared state: the schema, the rows of table `salt`  *)
(* (in rowid order) and the rows of table `storage`.  Every process owns   *)
(* one Depot handle (its position inside NewDepot and its in-memory salt). *)
(* One SQL statement is one atomic step; NewDepot issues several.          *)
(*                                                                         *)
(* libdepot.go holds two revisions of the library.  The operations are     *)
(* modelled from the later one (lines 222-420: NewDepot, init, encrypt,    *)
(* decrypt, Stow, Fetch, Drop); Peek only exists in lines 206-220.         *)
(***************************************************************************)
EXTENDS Integers, Sequences, FiniteSets, TLC

(* ------------------------------ bounds --------------------------------- *)

\* rows the salt table may grow to before the model stops inserting
MaxSaltRows == 2
\* seconds the clock can advance
MaxClock == 1

Procs == {"p1", "p2"}
Keys == {"k1", "k2"}
\* the 32-byte salts the random source can deliver
Salts == {"s1", "s2"}
\* make([]byte, 32): the buffer of a handle before a salt is read or drawn
ZeroSalt == "zero"
\* the 12-byte nonces the random source can deliver
Nonces == {"n1", "n2"}

(* an optional value: a nil slice, a NULL column *)
None == <<>>
Some(x) == <<x>>

\* a password argument: nil, or a byte slice (the empty slice is not nil)
\* here: the empty slice, "p" and "p\x00"
Passwords == {Some(<<>>), Some(<<112>>), Some(<<112, 0>>)}
PasswordArgs == {None} \cup Passwords
\* a Go string holding literal text
Str(bytes) == [txt |-> bytes]
\* the values stowed: "" and "a"
Vals == {Str(<<>>), Str(<<97>>)}
EmptyString == Str(<<>>)

(* ------------------------------ errors --------------------------------- *)

\* an error is its chain, outermost message first; nil is the empty chain
NoErr == <<>>
ErrNotFound == <<"key not found">>
ErrBadPassword == <<"bad password">>
ErrPasswordNeeded == <<"password is needed for decryption">>
ErrNoRows == <<"sql: no rows in result set">>
ErrIO == <<"disk I/O error">>
ErrNoTable == <<"no such table">>
ErrUnique == <<"UNIQUE constraint failed: storage.nonce">>
ErrBase64 == <<"illegal base64 data">>

\* fmt.Errorf("msg: %w", err)
Wrap(msg, err) == <<msg>> \o err

\* errors.Is(err, target) for a sentinel target
ErrorsIs(err, target) ==
    \E i \in 1..Len(err) : SubSeq(err, i, Len(err)) = target

(* ------------------------------ crypto --------------------------------- *)

\* HMAC pads a key shorter than its block with NUL bytes, so passwords that
\* differ only in trailing NUL bytes are the same HMAC key.  (The passwords of
\* the model are shorter than the 64-byte SHA-1 block, so none is hashed first.)
RECURSIVE HmacKey(_)
HmacKey(password) ==
    IF password # <<>> /\ password[Len(password)] = 0
    THEN HmacKey(SubSeq(password, 1, Len(password) - 1))
    ELSE password

\* pbkdf2.Key(password, salt, 4096, 32, sha1.New): PBKDF2 keyed by HMAC-SHA1
Pbkdf2Key(password, salt) == [hk |-> HmacKey(password), salt |-> salt]

\* aesgcm.Seal(nil, nonce, data, nil): the sealed bytes bind key, nonce and data
Seal(key, nonce, data) == [k |-> key, n |-> nonce, d |-> data]

\* aesgcm.Open(nil, nonce, data, nil): the tag verifies under the sealing key
\* and nonce only
GcmOpen(key, nonce, sealed) ==
    IF sealed.k = key /\ sealed.n = nonce
    THEN [ok |-> TRUE, d |-> sealed.d]
    ELSE [ok |-> FALSE, d |-> <<>>]

\* rnd is what rand.Reader delivers: None when the read fails
encrypt(password, salt, data, rnd) ==
    IF rnd = None
    THEN [ct |-> None, nonce |-> None, err |-> ErrIO]
    ELSE [ct |-> Some(Seal(Pbkdf2Key(password, salt), rnd[1], data)),
          nonce |-> rnd, err |-> NoErr]

\* a faulty decrypt: the tag is not verified (a cipher mode without authentication)
decryptNoAuth(password, salt, nonce, data) ==
    [plaintext |-> data.d, err |-> NoErr]

decrypt(password, salt, nonce, data) ==
    LET opened == GcmOpen(Pbkdf2Key(password, salt), nonce, data)
    IN  IF opened.ok
        THEN [plaintext |-> opened.d, err |-> NoErr]
        ELSE [plaintext |-> <<>>, err |-> ErrBadPassword]

\* b64.EncodeToString: a Go string holding the base64 text of the bytes
B64Encode(bytes) == [b64 |-> bytes]

\* b64.DecodeString: literal text is not taken for the encoding of sealed bytes
B64Decode(s) ==
    IF "b64" \in DOMAIN s
    THEN [bytes |-> Some(s.b64), err |-> NoErr]
    ELSE [bytes |-> None, err |-> ErrBase64]

(* ------------------------------- state --------------------------------- *)

VARIABLES
    schema,     \* TRUE once the tables storage and salt exist
    saltTable,  \* the rows of table salt, in rowid order
    storage,    \* the rows of table storage
    now,        \* strftime('%s', 'now')
    pc,         \* each process's position: closed, init, gen (inside NewDepot), open
    salt,       \* each handle's db.salt
    last        \* the call or statement that ran last, with what it returned

vars == <<schema, saltTable, storage, now, pc, salt, last>>

Row(key, val, nonce, modified) ==
    [key |-> key, val |-> val, nonce |-> nonce, modified |-> modified]

\* a call as its caller sees it: the arguments, the string and error returned,
\* whether decrypt ran (dec), and what the key's record was when it was called
\* (had: none, plain or enc)
Call(op, h, key, val, pw, out, err, dec, had) ==
    [op |-> op, h |-> h, key |-> key, val |-> val, pw |-> pw,
     out |-> out, err |-> err, dec |-> dec, had |-> had]

\* a statement or call that takes no key, value or password
Step(op, h, err) ==
    Call(op, h, "", EmptyString, None, EmptyString, err, FALSE, "none")

Init ==
    /\ schema = FALSE
    /\ saltTable = <<>>
    /\ storage = {}
    /\ now = 0
    /\ pc = [h \in Procs |-> "closed"]
    /\ salt = [h \in Procs |-> ZeroSalt]
    /\ last = Step("none", "p1", NoErr)

(* ---------------------------- SQL statements --------------------------- *)

\* the rows of storage with the given key
RowsOf(rows, key) == {r \in rows : r.key = key}

\* a faulty upsert: on conflict (key) do nothing
UpsertDoNothing(rows, key, val, nonce, t) ==
    IF RowsOf(rows, key) # {}
    THEN [rows |-> rows, err |-> NoErr]
    ELSE IF nonce # None /\ \E r \in rows : r.nonce = nonce
    THEN [rows |-> rows, err |-> ErrUnique]
    ELSE [rows |-> rows \cup {Row(key, val, nonce, t)}, err |-> NoErr]

\* a faulty upsert: on conflict (key) do update set val = ? only
UpsertKeepsNonce(rows, key, val, nonce, t) ==
    IF nonce # None /\ \E r \in rows : r.key # key /\ r.nonce = nonce
    THEN [rows |-> rows, err |-> ErrUnique]
    ELSE IF RowsOf(rows, key) = {}
    THEN [rows |-> rows \cup {Row(key, val, nonce, t)}, err |-> NoErr]
    ELSE [rows |-> (rows \ RowsOf(rows, key))
                     \cup {Row(key, val, r.nonce, t) : r \in RowsOf(rows, key)},
          err |-> NoErr]

\* a faulty upsert: the nonce column is not declared unique
UpsertNonceNotUnique(rows, key, val, nonce, t) ==
    [rows |-> (rows \ RowsOf(rows, key)) \cup {Row(key, val, nonce, t)},
     err |-> NoErr]

\* a faulty upsert: delete from storage where key = ?, then a plain insert, as
\* two statements
UpsertDeleteThenInsert(rows, key, val, nonce, t) ==
    LET rest == rows \ RowsOf(rows, key)
    IN  IF nonce # None /\ \E r \in rest : r.nonce = nonce
        THEN [rows |-> rest, err |-> ErrUnique]
        ELSE [rows |-> rest \cup {Row(key, val, nonce, t)}, err |-> NoErr]

\* insert into storage (key, val, nonce) values (?, ?, ?)
\*   on conflict (key) do update set modified = now, val = ?, nonce = ?
\* under `key text unique not null` and `nonce blob unique` (NULLs are distinct)
Upsert(rows, key, val, nonce, t) ==
    IF nonce # None /\ \E r \in rows : r.key # key /\ r.nonce = nonce
    THEN [rows |-> rows, err |-> ErrUnique]
    ELSE [rows |-> (rows \ RowsOf(rows, key)) \cup {Row(key, val, nonce, t)},
          err |-> NoErr]

\* select val, nonce from storage where key = ?  (QueryRow: the first row)
SelectRow(rows, key) ==
    IF RowsOf(rows, key) = {}
    THEN [row |-> None, err |-> ErrNoRows]
    ELSE [row |-> Some(CHOOSE r \in RowsOf(rows, key) : TRUE), err |-> NoErr]

\* a faulty delete: delete from storage where key = ? and nonce is null
DeletePlaintextOnly(rows, key) == rows \ {r \in RowsOf(rows, key) : r.nonce = None}

\* a faulty delete: delete from storage, the where clause left out
DeleteEveryRow(rows, key) == {}

\* delete from storage where key = ?
Delete(rows, key) == rows \ RowsOf(rows, key)

\* what the rows hold for the key: no record, a plaintext one, an encrypted one
KindOf(rows, key) ==
    IF RowsOf(rows, key) = {} THEN "none"
    ELSE IF \E r \in RowsOf(rows, key) : r.nonce # None THEN "enc"
    ELSE "plain"

(* --------------------------- the operations ---------------------------- *)

\* a faulty Stow: an encrypted record is replaced only by who can decrypt it
StowCheckingPassword(rows, h, key, val, password, rnd) ==
    LET held == {r \in RowsOf(rows, key) : r.nonce # None}
        nonce == IF password = None THEN None ELSE rnd
        cval == IF password = None \/ rnd = None THEN val
                ELSE B64Encode(Seal(Pbkdf2Key(password[1], salt[h]), rnd[1], val.txt))
        up == Upsert(rows, key, cval, nonce, now)
    IN  IF held # {} /\ password = None
        THEN [rows |-> rows, err |-> ErrPasswordNeeded]
        ELSE IF \E r \in held :
                   decrypt(password[1], salt[h], r.nonce[1],
                           B64Decode(r.val).bytes[1]).err # NoErr
        THEN [rows |-> rows, err |-> Wrap("cannot decrypt data", ErrBadPassword)]
        ELSE IF password # None /\ rnd = None
        THEN [rows |-> rows, err |-> Wrap("cannot encrypt data", ErrIO)]
        ELSE IF up.err # NoErr
        THEN [rows |-> up.rows, err |-> Wrap("cannot access database", up.err)]
        ELSE [rows |-> up.rows, err |-> NoErr]

\* Depot.Stow: the rows of storage afterwards (what the one statement left) and
\* the error returned
StowOn(rows, h, key, val, password, rnd) ==
    IF password = None
    THEN LET up == Upsert(rows, key, val, None, now)
         IN  IF up.err # NoErr
             THEN [rows |-> up.rows, err |-> Wrap("cannot access database", up.err)]
             ELSE [rows |-> up.rows, err |-> NoErr]
    ELSE LET e == encrypt(password[1], salt[h], val.txt, rnd)
         IN  IF e.err # NoErr
             THEN [rows |-> rows, err |-> Wrap("cannot encrypt data", e.err)]
             ELSE LET cval == B64Encode(e.ct[1])
                      up == Upsert(rows, key, cval, e.nonce, now)
                  IN  IF up.err # NoErr
                      THEN [rows |-> up.rows,
                            err |-> Wrap("cannot access database", up.err)]
                      ELSE [rows |-> up.rows, err |-> NoErr]

\* Stow on the database as it is
StowResult(h, key, val, password, rnd) == StowOn(storage, h, key, val, password, rnd)

\* a faulty Fetch: a nil password is not told apart (as in lines 162-192, the
\* earlier revision); pbkdf2 takes nil for the empty password
FetchWithoutNilCheck(h, key, password) ==
    LET q == SelectRow(storage, key)
    IN  IF ErrorsIs(q.err, ErrNoRows)
        THEN [out |-> EmptyString, err |-> ErrNotFound, dec |-> FALSE]
        ELSE LET row == q.row[1]
                 pwbytes == IF password = None THEN <<>> ELSE password[1]
             IN  IF row.nonce = None
                 THEN [out |-> row.val, err |-> NoErr, dec |-> FALSE]
                 ELSE LET d == decrypt(pwbytes, salt[h], row.nonce[1],
                                       B64Decode(row.val).bytes[1])
                      IN  IF d.err # NoErr
                          THEN [out |-> EmptyString,
                                err |-> Wrap("cannot decrypt data", d.err),
                                dec |-> TRUE]
                          ELSE [out |-> Str(d.plaintext), err |-> NoErr, dec |-> TRUE]

\* a faulty Fetch: the password is looked at before the record is looked up
FetchPasswordFirst(h, key, password) ==
    IF password = None
    THEN [out |-> EmptyString, err |-> ErrPasswordNeeded, dec |-> FALSE]
    ELSE FetchWithoutNilCheck(h, key, password)

\* a faulty Fetch: a password given, and not the nonce, sends it down the
\* decryption path
FetchPasswordDecides(rows, h, key, password) ==
    LET q == SelectRow(rows, key)
    IN  IF ErrorsIs(q.err, ErrNoRows)
        THEN [out |-> EmptyString, err |-> ErrNotFound, dec |-> FALSE]
        ELSE LET row == q.row[1]
             IN  IF password = None
                 THEN IF row.nonce = None
                      THEN [out |-> row.val, err |-> NoErr, dec |-> FALSE]
                      ELSE [out |-> EmptyString, err |-> ErrPasswordNeeded,
                            dec |-> FALSE]
                 ELSE LET valbytes == B64Decode(row.val)
                      IN  IF valbytes.err # NoErr
                          THEN [out |-> EmptyString,
                                err |-> Wrap("cannot decrypt data", valbytes.err),
                                dec |-> FALSE]
                          ELSE IF row.nonce = None
                          THEN [out |-> EmptyString,
                                err |-> Wrap("cannot decrypt data", ErrBadPassword),
                                dec |-> TRUE]
                          ELSE LET d == decrypt(password[1], salt[h], row.nonce[1],
                                                valbytes.bytes[1])
                               IN  IF d.err # NoErr
                                   THEN [out |-> EmptyString,
                                         err |-> Wrap("cannot decrypt data", d.err),
                                         dec |-> TRUE]
                                   ELSE [out |-> Str(d.plaintext), err |-> NoErr,
                                         dec |-> TRUE]

\* Depot.Fetch: the string and the error returned; dec tells whether decrypt ran
FetchOn(rows, h, key, password) ==
    LET q == SelectRow(rows, key)
    IN  IF ErrorsIs(q.err, ErrNoRows)
        THEN [out |-> EmptyString, err |-> ErrNotFound, dec |-> FALSE]
        ELSE LET row == q.row[1]
             IN  IF row.nonce = None
                 THEN [out |-> row.val, err |-> NoErr, dec |-> FALSE]
                 ELSE IF password = None
                 THEN [out |-> EmptyString, err |-> ErrPasswordNeeded, dec |-> FALSE]
                 ELSE LET valbytes == B64Decode(row.val)
                      IN  IF valbytes.err # NoErr
                          THEN [out |-> EmptyString,
                                err |-> Wrap("cannot decrypt data", valbytes.err),
                                dec |-> FALSE]
                          ELSE LET d == decrypt(password[1], salt[h], row.nonce[1],
                                                valbytes.bytes[1])
                               IN  IF d.err # NoErr
                                   THEN [out |-> EmptyString,
                                         err |-> Wrap("cannot decrypt data", d.err),
                                         dec |-> TRUE]
                                   ELSE [out |-> Str(d.plaintext), err |-> NoErr,
                                         dec |-> TRUE]

\* Fetch on the database as it is
FetchResult(h, key, password) == FetchOn(storage, h, key, password)

\* a faulty Peek: the nonce is not looked at
PeekIgnoringNonce(key) ==
    LET q == SelectRow(storage, key)
    IN  [out |-> IF q.row = None THEN EmptyString ELSE q.row[1].val, err |-> NoErr]

\* another Peek: a missing row is reported as ErrNotFound, as the tests expect
PeekReportingNotFound(key) ==
    LET q == SelectRow(storage, key)
    IN  IF q.row = None THEN [out |-> EmptyString, err |-> ErrNotFound]
        ELSE IF q.row[1].nonce # None THEN [out |-> EmptyString, err |-> NoErr]
        ELSE [out |-> q.row[1].val, err |-> NoErr]

\* Depot.Peek returns a string and nothing else: err is always nil.  The error of
\* Scan is dropped, so data and nonce keep their zero values when no row matches.
PeekOn(rows, key) ==
    LET q == SelectRow(rows, key)
        data == IF q.row = None THEN EmptyString ELSE q.row[1].val
        nonce == IF q.row = None THEN None ELSE q.row[1].nonce
    IN  IF nonce # None
        THEN [out |-> EmptyString, err |-> NoErr]
        ELSE [out |-> data, err |-> NoErr]

\* Peek on the database as it is
PeekResult(key) == PeekOn(storage, key)

\* Depot.Drop: the rows of storage afterwards and the error returned
DropOn(rows, key) == [rows |-> Delete(rows, key), err |-> NoErr]

\* Drop on the database as it is
DropResult(key) == DropOn(storage, key)

(* ------------------------------ actions -------------------------------- *)

\* what rand.Reader can deliver
RandNonces == {None} \cup {Some(n) : n \in Nonces}
RandSalts == {None} \cup {Some(s) : s \in Salts}

\* NewDepot, first statement: select data from salt.  ioFails is a read that
\* fails although the table is there (a locked or unreadable file).
NewDepotSelect(h, ioFails) ==
    /\ pc[h] = "closed"
    /\ LET err == IF ~schema THEN ErrNoTable
                  ELSE IF ioFails THEN ErrIO
                  ELSE IF saltTable = <<>> THEN ErrNoRows
                  ELSE NoErr
       IN  IF err = NoErr
           THEN /\ salt' = [salt EXCEPT ![h] = Head(saltTable)]
                /\ pc' = [pc EXCEPT ![h] = "open"]
                /\ last' = Step("NewDepot", h, NoErr)
           ELSE /\ salt' = [salt EXCEPT ![h] = ZeroSalt]
                /\ pc' = [pc EXCEPT ![h] =
                            IF ErrorsIs(err, ErrNoRows) THEN "gen" ELSE "init"]
                /\ last' = Step("NewDepot.select", h, err)
    /\ UNCHANGED <<schema, saltTable, storage, now>>

\* NewDepot after a failed select that was not ErrNoRows: db.init()
NewDepotInit(h, ioFails) ==
    /\ pc[h] = "init"
    /\ IF ioFails
       THEN /\ pc' = [pc EXCEPT ![h] = "closed"]
            /\ last' = Step("NewDepot", h, Wrap("cannot access database", ErrIO))
            /\ UNCHANGED schema
       ELSE /\ schema' = TRUE
            /\ pc' = [pc EXCEPT ![h] = "gen"]
            /\ last' = Step("NewDepot.init", h, NoErr)
    /\ UNCHANGED <<saltTable, storage, now, salt>>

\* NewDepot after a failed select: draw a salt and insert it into table salt
NewDepotInsert(h, rnd) ==
    /\ pc[h] = "gen"
    /\ IF rnd = None
       THEN /\ pc' = [pc EXCEPT ![h] = "closed"]
            /\ last' = Step("NewDepot", h, Wrap("cannot generate random salt", ErrIO))
            /\ UNCHANGED <<saltTable, salt>>
       ELSE /\ Len(saltTable) < MaxSaltRows
            /\ salt' = [salt EXCEPT ![h] = rnd[1]]
            /\ saltTable' = Append(saltTable, rnd[1])
            /\ pc' = [pc EXCEPT ![h] = "open"]
            /\ last' = Step("NewDepot", h, NoErr)
    /\ UNCHANGED <<schema, storage, now>>

\* the process ends (main returns); its handle is gone
Exit(h) ==
    /\ pc[h] = "open"
    /\ pc' = [pc EXCEPT ![h] = "closed"]
    /\ salt' = [salt EXCEPT ![h] = ZeroSalt]
    /\ last' = Step("exit", h, NoErr)
    /\ UNCHANGED <<schema, saltTable, storage, now>>

Stow(h, key, val, password, rnd) ==
    /\ pc[h] = "open"
    /\ LET r == StowResult(h, key, val, password, rnd)
       IN  /\ storage' = r.rows
           /\ last' = Call("Stow", h, key, val, password, EmptyString, r.err, FALSE,
                        KindOf(storage, key))
    /\ UNCHANGED <<schema, saltTable, now, pc, salt>>

\* a faulty Fetch: a record that was read is deleted (a read-once secret)
FetchOnce(h, key, password) ==
    /\ pc[h] = "open"
    /\ LET r == FetchResult(h, key, password)
       IN  /\ last' = Call("Fetch", h, key, EmptyString, password, r.out, r.err,
                           r.dec, KindOf(storage, key))
           /\ storage' = IF r.err = NoErr THEN Delete(storage, key) ELSE storage
    /\ UNCHANGED <<schema, saltTable, now, pc, salt>>

Fetch(h, key, password) ==
    /\ pc[h] = "open"
    /\ LET r == FetchResult(h, key, password)
       IN  last' = Call("Fetch", h, key, EmptyString, password, r.out, r.err, r.dec,
                    KindOf(storage, key))
    /\ UNCHANGED <<schema, saltTable, storage, now, pc, salt>>

Peek(h, key) ==
    /\ pc[h] = "open"
    /\ LET r == PeekResult(key)
       IN  last' = Call("Peek", h, key, EmptyString, None, r.out, r.err, FALSE,
                    KindOf(storage, key))
    /\ UNCHANGED <<schema, saltTable, storage, now, pc, salt>>

Drop(h, key) ==
    /\ pc[h] = "open"
    /\ LET r == DropResult(key)
       IN  /\ storage' = r.rows
           /\ last' = Call("Drop", h, key, EmptyString, None, EmptyString, r.err, FALSE,
                        KindOf(storage, key))
    /\ UNCHANGED <<schema, saltTable, now, pc, salt>>

\* a second passes
Tick ==
    /\ now < MaxClock
    /\ now' = now + 1
    /\ UNCHANGED <<schema, saltTable, storage, pc, salt, last>>

\* main, action fetch, from the handle NewDepot returned to the end of the run:
\* Peek; on an empty string the password is taken from DEPOT_PASS or read from the
\* terminal (typed) and Fetch is called; the value is printed (out), or the run
\* dies on Fetch's error.  last.op tells how far the run went.
CliFetch(h, key, typed) ==
    /\ pc[h] = "open"
    /\ LET val == PeekResult(key).out
           r == FetchResult(h, key, typed)
       IN  IF val = EmptyString
           THEN last' = Call("main.fetch/Fetch", h, key, EmptyString, typed, r.out,
                             r.err, r.dec, KindOf(storage, key))
           ELSE last' = Call("main.fetch/Peek", h, key, EmptyString, None, val,
                             NoErr, FALSE, KindOf(storage, key))
    /\ pc' = [pc EXCEPT ![h] = "closed"]
    /\ salt' = [salt EXCEPT ![h] = ZeroSalt]
    /\ UNCHANGED <<schema, saltTable, storage, now>>

\* the steps of the processes P on the keys K
Run(P, K) ==
    \/ \E h \in P, f \in BOOLEAN : NewDepotSelect(h, f)
    \/ \E h \in P, f \in BOOLEAN : NewDepotInit(h, f)
    \/ \E h \in P, rnd \in RandSalts : NewDepotInsert(h, rnd)
    \/ \E h \in P : Exit(h)
    \/ \E h \in P, k \in K, v \in Vals, p \in PasswordArgs, rnd \in RandNonces :
          Stow(h, k, v, p, rnd)
    \/ \E h \in P, k \in K, p \in PasswordArgs : Fetch(h, k, p)
    \/ \E h \in P, k \in K : Peek(h, k)
    \/ \E h \in P, k \in K : Drop(h, k)

\* one process at a time works on the database (one run of the command after
\* another); the clock stands still
Next == Run({"p1"}, Keys)

Spec == Init /\ [][Next]_vars

\* two processes work on one key of the same database, their statements interleaved
NextConc == Run(Procs, {"k1"})

SpecConc == Init /\ [][NextConc]_vars

\* one process opens the database once and keeps its handle (as the tests do)
NextOnce ==
    \/ \E f \in BOOLEAN : NewDepotSelect("p1", f)
    \/ \E f \in BOOLEAN : NewDepotInit("p1", f)
    \/ \E rnd \in RandSalts : NewDepotInsert("p1", rnd)
    \/ \E k \in Keys, v \in Vals, p \in PasswordArgs, rnd \in RandNonces :
          Stow("p1", k, v, p, rnd)
    \/ \E k \in Keys, p \in PasswordArgs : Fetch("p1", k, p)
    \/ \E k \in Keys : Peek("p1", k)
    \/ \E k \in Keys : Drop("p1", k)

SpecOnce == Init /\ [][NextOnce]_vars

\* the same, and the clock advances
NextClock == NextOnce \/ Tick

SpecClock == Init /\ [][NextClock]_vars

\* one process after another works on key k1 through the library or runs the
\* command's fetch
NextCli ==
    \/ Run({"p1"}, {"k1"})
    \/ \E typed \in PasswordArgs : CliFetch("p1", "k1", typed)

SpecCli == Init /\ [][NextCli]_vars

(* ------------------------------ claims --------------------------------- *)

\* the last call was a Stow that returned nil
Stowed == last.op = "Stow" /\ last.err = NoErr
StowedPlain == Stowed /\ last.pw = None
StowedEnc == Stowed /\ last.pw # None

\* C1: right after a successful Stow(K, V, nil), Fetch(K, nil) returns V with no
\* error and Peek(K) returns V.
C1_RoundTripPlaintext ==
    StowedPlain =>
        /\ FetchResult(last.h, last.key, None)
             = [out |-> last.val, err |-> NoErr, dec |-> FALSE]
        /\ PeekResult(last.key) = [out |-> last.val, err |-> NoErr]

\* a plaintext Stow of a nonempty value has just replaced an encrypted record
C1_Witness ==
    StowedPlain /\ last.val # EmptyString /\ last.had = "enc"

\* C2: right after a successful Stow(K, V, P) with a nonempty password P,
\* Fetch(K, P) returns V with no error and Peek(K) returns the empty string, which
\* is neither V's ciphertext nor (for a nonempty V) V.
C2_RoundTripEncrypted ==
    (StowedEnc /\ last.pw # Some(<<>>)) =>
        /\ FetchResult(last.h, last.key, last.pw)
             = [out |-> last.val, err |-> NoErr, dec |-> TRUE]
        /\ PeekResult(last.key) = [out |-> EmptyString, err |-> NoErr]
        /\ \A r \in RowsOf(storage, last.key) : PeekResult(last.key).out # r.val

\* an encrypted Stow of a nonempty value has just replaced a plaintext record
C2_Witness ==
    /\ StowedEnc /\ last.pw # Some(<<>>)
    /\ last.val # EmptyString /\ last.had = "plain"

\* the step is a Fetch of the key just stowed with a password, through the same
\* handle, with another non-nil password
FetchWithOtherPassword ==
    /\ StowedEnc
    /\ last'.op = "Fetch" /\ last'.h = last.h /\ last'.key = last.key
    /\ last'.pw # None /\ last'.pw # last.pw

\* the Fetch of the step fails with "bad password", returns no value and changes
\* no record
FetchRefused ==
    /\ ErrorsIs(last'.err, ErrBadPassword)
    /\ last'.out = EmptyString
    /\ storage' = storage

\* C3 as claimed: after a successful Stow(K, V, P), Fetch(K, P') with any non-nil
\* P' different from P fails with "bad password" (also when wrapped), returns no
\* value and leaves the record unchanged.
C3_AnyOtherPassword ==
    [][FetchWithOtherPassword => FetchRefused]_vars

\* C3 as amended: the same for every non-nil P' that is another HMAC key than P,
\* that is, differs from P in more than trailing NUL bytes.
C3_WrongPassword ==
    [][(FetchWithOtherPassword /\ HmacKey(last'.pw[1]) # HmacKey(last.pw[1]))
          => FetchRefused]_vars

\* a Fetch of an encrypted record has just failed with "bad password"
C3_Witness ==
    /\ last.op = "Fetch" /\ last.pw # None /\ last.had = "enc"
    /\ ErrorsIs(last.err, ErrBadPassword)
    /\ last.err # ErrBadPassword

\* C4: Fetch(K, nil) on an encrypted record fails with "password required", an
\* error that is neither "bad password" nor "not found", and decrypt does not run.
C4_PasswordRequired ==
    (last.op = "Fetch" /\ last.pw = None /\ KindOf(storage, last.key) = "enc") =>
        /\ ErrorsIs(last.err, ErrPasswordNeeded)
        /\ ~ErrorsIs(last.err, ErrBadPassword)
        /\ ~ErrorsIs(last.err, ErrNotFound)
        /\ last.out = EmptyString
        /\ ~last.dec

\* a Fetch with a nil password of an encrypted record has just returned
C4_Witness ==
    last.op = "Fetch" /\ last.pw = None /\ last.had = "enc"

PlainThenEncStow ==
    /\ StowedPlain
    /\ last'.op = "Stow" /\ last'.err = NoErr /\ last'.pw # None
    /\ last'.key = last.key

\* C6: Stow(K, V1, nil), Stow(K, V2, P), Fetch(K, P) returns V2, not V1; after the
\* second Stow K has exactly one record, it has a nonce, and Peek(K) returns no
\* value.
C6_Overwrite ==
    [][PlainThenEncStow =>
         /\ (FetchResult(last.h, last.key, last.pw))'
               = [out |-> last'.val, err |-> NoErr, dec |-> TRUE]
         /\ last'.val # last.val =>
               (FetchResult(last.h, last.key, last.pw))'.out # last.val
         /\ Cardinality(RowsOf(storage', last'.key)) = 1
         /\ \A r \in RowsOf(storage', last'.key) : r.nonce # None
         /\ (PeekResult(last.key))' = [out |-> EmptyString, err |-> NoErr]]_vars

\* an encrypted Stow has just turned the plaintext record of its key into the
\* one, encrypted record of that key
C6_Witness ==
    /\ StowedEnc /\ last.had = "plain"
    /\ Cardinality(RowsOf(storage, last.key)) = 1
    /\ KindOf(storage, last.key) = "enc"

\* C7: Fetch(K, p) on a key without a record fails with "not found" for every p,
\* nil or not; neither "password required" nor "bad password" is reported and
\* decrypt does not run.
C7_NotFound ==
    (last.op = "Fetch" /\ KindOf(storage, last.key) = "none") =>
        /\ ErrorsIs(last.err, ErrNotFound)
        /\ ~ErrorsIs(last.err, ErrPasswordNeeded)
        /\ ~ErrorsIs(last.err, ErrBadPassword)
        /\ last.out = EmptyString
        /\ ~last.dec

\* a Fetch with a nil password of a key without a record has just returned, while
\* the other key has a record
C7_Witness ==
    last.op = "Fetch" /\ last.had = "none" /\ last.pw = None /\ storage # {}

C9_PeekErrorAsTested ==
    last.op = "Peek" =>
        IF KindOf(storage, last.key) = "none"
        THEN ErrorsIs(last.err, ErrNotFound)
        ELSE last.err = NoErr

\* C10: the salt table holds at most one row.
C10_OneSaltRow ==
    Len(saltTable) <= 1

\* C11: a persisted salt is never changed and every open handle holds it, so a
\* value stowed with a password through one handle is returned by Fetch with that
\* password through every other open handle.
C11_SaltStability ==
    /\ \A h \in Procs :
          (pc[h] = "open" /\ saltTable # <<>>) => salt[h] = Head(saltTable)
    /\ StowedEnc =>
          \A h \in Procs :
             pc[h] = "open" =>
                FetchResult(h, last.key, last.pw)
                   = [out |-> last.val, err |-> NoErr, dec |-> TRUE]

\* C12: NewDepot goes on after its select (to init, to drawing a salt and
\* inserting it) only when the select failed because the salt is absent: no table
\* or no row.  After any other failure it returns an error and leaves the salt
\* table alone.
C12_OpenFailure ==
    /\ last.op = "NewDepot.select" =>
          (ErrorsIs(last.err, ErrNoTable) \/ ErrorsIs(last.err, ErrNoRows))
    /\ \A h \in Procs :
          pc[h] \in {"init", "gen"} => (~schema \/ saltTable = <<>>)

\* a row holds what one Stow wrote: literal text with a NULL nonce, or the base64
\* text of bytes sealed under the nonce beside it
WrittenByOneStow(r) ==
    IF r.nonce = None
    THEN r.val \in Vals
    ELSE /\ B64Decode(r.val).err = NoErr
         /\ B64Decode(r.val).bytes[1].n = r.nonce[1]

\* C13: with two processes stowing the same key, the key never has more than one
\* record, and value and nonce of the record come from the same Stow.
C13_NoMixedUpdate ==
    /\ \A k \in Keys : Cardinality(RowsOf(storage, k)) <= 1
    /\ \A r \in storage : WrittenByOneStow(r)
    /\ Stowed =>
          \A r \in RowsOf(storage, last.key) :
             /\ (last.pw = None) = (r.nonce = None)
             /\ last.pw = None => r.val = last.val
             /\ last.pw # None => B64Decode(r.val).bytes[1].d = last.val.txt

\* the second process has just stowed the key encrypted over the plaintext
\* record that was there, while the first process has its handle open
C13_Witness ==
    /\ StowedEnc /\ last.h = "p2" /\ last.had = "plain"
    /\ pc["p1"] = "open"

\* the row is what the Stow of the step writes: the value as literal text with a
\* NULL nonce, or the value sealed under the password, the handle's salt and the
\* nonce stored beside it; modified is the time of the statement
WrittenByThisStow(r) ==
    /\ r.key = last'.key
    /\ r.modified = now
    /\ IF last'.pw = None
       THEN r.val = last'.val /\ r.nonce = None
       ELSE /\ r.nonce # None
            /\ r.val = B64Encode(Seal(Pbkdf2Key(last'.pw[1], salt[last'.h]),
                                      r.nonce[1], last'.val.txt))

\* C14: a Stow that returns an error leaves every record as it was, the previous
\* record of its key included; a Stow that succeeds replaces value, nonce and
\* modified of its key's record together and touches no other record.
C14_NoPartialWrites ==
    [][(last'.op = "Stow" /\ now' = now) =>
          IF last'.err # NoErr
          THEN UNCHANGED <<schema, saltTable, storage>>
          ELSE /\ storage' \ RowsOf(storage', last'.key)
                    = storage \ RowsOf(storage, last'.key)
               /\ Cardinality(RowsOf(storage', last'.key)) = 1
               /\ \A r \in RowsOf(storage', last'.key) : WrittenByThisStow(r)]_vars

\* a Stow over an existing record has just failed on the nonce of the other key's
\* record, a second after the database was created
C14_Witness ==
    /\ last.op = "Stow" /\ ErrorsIs(last.err, ErrUnique)
    /\ last.had # "none" /\ now = 1

\* the step is an encrypted Stow that succeeded
EncStowStep == last'.op = "Stow" /\ last'.pw # None /\ last'.err = NoErr

\* C15 as stated: the nonce an encrypted Stow writes is none of the nonces that
\* earlier Stows wrote; those still stored when it runs are among them.
C15_NeverUsedTwice ==
    [][EncStowStep =>
          \A r \in RowsOf(storage', last'.key) :
             \A q \in storage : q.nonce # r.nonce]_vars

\* C15, amended: no two records stored at the same time carry the same nonce (the
\* unique column refuses a Stow whose nonce another key's record holds); a repeat
\* of the key's own, an overwritten or a dropped nonce is left to rand.Reader.
C15_NonceFreshness ==
    \A r1 \in storage : \A r2 \in storage :
       (r1.nonce # None /\ r1.nonce = r2.nonce) => r1 = r2

\* an encrypted Stow has succeeded beside an encrypted record of the other key
C15_Witness ==
    /\ StowedEnc
    /\ \E r1 \in storage : \E r2 \in storage :
          r1.key # r2.key /\ r1.nonce # None /\ r2.nonce # None

\* the calls a client can make on one key
CallsOn(key) ==
    {[op |-> "Stow", key |-> key, val |-> v, pw |-> p, rnd |-> rnd] :
        v \in Vals, p \in PasswordArgs, rnd \in RandNonces}
    \cup {[op |-> "Fetch", key |-> key, val |-> EmptyString, pw |-> p, rnd |-> None] :
             p \in PasswordArgs}
    \cup {[op |-> "Peek", key |-> key, val |-> EmptyString, pw |-> None, rnd |-> None],
          [op |-> "Drop", key |-> key, val |-> EmptyString, pw |-> None, rnd |-> None]}

\* a call made through handle h on the rows: the rows afterwards and what the
\* call returns
Apply(c, h, rows) ==
    CASE c.op = "Stow" ->
            LET r == StowOn(rows, h, c.key, c.val, c.pw, c.rnd)
            IN  [rows |-> r.rows, out |-> EmptyString, err |-> r.err]
      [] c.op = "Fetch" ->
            LET r == FetchOn(rows, h, c.key, c.pw)
            IN  [rows |-> rows, out |-> r.out, err |-> r.err]
      [] c.op = "Peek" ->
            LET r == PeekOn(rows, c.key)
            IN  [rows |-> rows, out |-> r.out, err |-> r.err]
      [] c.op = "Drop" ->
            LET r == DropOn(rows, c.key)
            IN  [rows |-> r.rows, out |-> EmptyString, err |-> r.err]

\* calls a and b give the same results and the same rows in either order
Commute(a, b, h, rows) ==
    LET ra == Apply(a, h, rows)
        rab == Apply(b, h, ra.rows)
        rb == Apply(b, h, rows)
        rba == Apply(a, h, rb.rows)
    IN  /\ rab.rows = rba.rows
        /\ ra.out = rba.out /\ ra.err = rba.err
        /\ rb.out = rab.out /\ rb.err = rab.err

\* a Stow or Drop on one key leaves the rows of every other key alone
OtherKeysKept(h) ==
    \A k1 \in Keys : \A a \in CallsOn(k1) :
       Apply(a, h, storage).rows \ RowsOf(Apply(a, h, storage).rows, k1)
          = storage \ RowsOf(storage, k1)

\* C16 as stated: any call on k1 and any call on k2 commute.
C16_AnyOrder ==
    \A h \in Procs :
       pc[h] = "open" =>
          /\ OtherKeysKept(h)
          /\ \A a \in CallsOn("k1") : \A b \in CallsOn("k2") :
                Commute(a, b, h, storage)


\* call a is an encrypted Stow whose nonce is the one call b writes, or the one
\* the record of b's key holds
NonceClash(a, b, rows) ==
    /\ a.op = "Stow" /\ a.pw # None /\ a.rnd # None
    /\ \/ \E r \in RowsOf(rows, b.key) : r.nonce = a.rnd
       \/ b.op = "Stow" /\ b.pw # None /\ b.rnd = a.rnd

\* C16, amended: a Stow or Drop on k1 never changes the record of k2, and a call
\* on k1 and a call on k2 commute unless one of them is an encrypted Stow whose
\* nonce is the one the other call writes or the one the other key's record holds.
C16_CrossKeyIndependence ==
    \A h \in Procs :
       pc[h] = "open" =>
          /\ OtherKeysKept(h)
          /\ \A a \in CallsOn("k1") : \A b \in CallsOn("k2") :
                (~NonceClash(a, b, storage) /\ ~NonceClash(b, a, storage)) =>
                   Commute(a, b, h, storage)

\* a record of k1 has been dropped while k2 keeps an encrypted record
C16_Witness ==
    /\ last.op = "Drop" /\ last.key = "k1" /\ last.had # "none"
    /\ KindOf(storage, "k2") = "enc"


\* the step belongs to a call of NewDepot
NewDepotStep ==
    /\ last'.op \in {"NewDepot", "NewDepot.select", "NewDepot.init"}
    /\ pc[last'.h] # "open"

\* C17: NewDepot on a database that has its schema and its salt changes neither
\* the salt table nor storage, and the handle it returns holds the stored salt,
\* the one the records were encrypted under.
C17_ReopenIdempotent ==
    [][(NewDepotStep /\ schema /\ saltTable # <<>>) =>
          /\ UNCHANGED <<schema, saltTable, storage>>
          /\ pc'[last'.h] = "open" => salt'[last'.h] = Head(saltTable)]_vars


\* what a step makes of the record of key k: a successful Stow makes it plaintext
\* or encrypted by its password, a Drop removes it, anything else leaves it
KindAfterStep(k) ==
    IF last'.op = "Stow" /\ last'.key = k /\ last'.err = NoErr
    THEN IF last'.pw = None THEN "plain" ELSE "enc"
    ELSE IF last'.op = "Drop" /\ last'.key = k /\ last'.err = NoErr
    THEN "none"
    ELSE KindOf(storage, k)

\* C18: step by step, the record of a key has a nonce exactly when the last
\* successful Stow on it had a non-nil password (a plaintext Stow over an encrypted
\* record clears the nonce), and Fetch and Peek take the decryption path or the
\* plaintext path by the nonce alone.
C18_NonceDiscriminates ==
    [][/\ \A k \in Keys : KindOf(storage', k) = KindAfterStep(k)
       /\ last'.op = "Fetch" =>
             /\ last'.had = "enc" => (last'.dec \/ last'.err = ErrPasswordNeeded)
             /\ last'.had = "plain" =>
                   /\ ~last'.dec /\ last'.err = NoErr
                   /\ \A r \in RowsOf(storage, last'.key) : last'.out = r.val
       /\ last'.op = "Peek" =>
             /\ last'.had = "enc" => last'.out = EmptyString
             /\ last'.had = "plain" =>
                   \A r \in RowsOf(storage, last'.key) : last'.out = r.val]_vars

\* a plaintext Stow has replaced the encrypted record of k1 while k2 keeps an
\* encrypted one
C18_Witness ==
    /\ StowedPlain /\ last.key = "k1" /\ last.had = "enc"
    /\ KindOf(storage, "k1") = "plain" /\ KindOf(storage, "k2") = "enc"


\* C19: on a record without a nonce, Fetch returns the stored value and no error
\* whatever the password, nil or not, through every open handle.
C19_PlaintextIgnoresPassword ==
    \A h \in Procs : \A k \in Keys : \A p \in PasswordArgs :
       (pc[h] = "open" /\ KindOf(storage, k) = "plain") =>
          \A r \in RowsOf(storage, k) :
             FetchOn(storage, h, k, p) = [out |-> r.val, err |-> NoErr, dec |-> FALSE]

\* Fetch with a password has just returned the nonempty value of a plaintext record
C19_Witness ==
    /\ last.op = "Fetch" /\ last.pw # None /\ last.had = "plain"
    /\ last.out # EmptyString /\ last.err = NoErr
    /\ KindOf(storage, last.key) = "plain"


\* C20: the command's fetch on a plaintext record, whatever its value, prints the
\* value Peek returned and reaches neither the password nor Fetch.
C20_PasswordOnlyWhenNeeded ==
    (last.op \in {"main.fetch/Peek", "main.fetch/Fetch"} /\ last.had = "plain") =>
        /\ last.op = "main.fetch/Peek"
        /\ \A r \in RowsOf(storage, last.key) : last.out = r.val


\* the calls that change the record of a key
ChangesOn(key) == {c \in CallsOn(key) : c.op \in {"Stow", "Drop"}}

NoFreshNonce(c, rows) ==
    /\ c.op = "Stow" /\ c.pw # None
    /\ \/ c.rnd = None
       \/ \E r \in rows : r.key # c.key /\ r.nonce = c.rnd

ReadAgain ==
    IF last.op = "Fetch"
    THEN FetchResult(last.h, last.key, last.pw)
    ELSE [out |-> PeekResult(last.key).out, err |-> PeekResult(last.key).err,
          dec |-> FALSE]

\* C22: a Fetch or a Peek, whatever it returns, leaves the storage table, the salt
\* table and every handle's salt as they were, and the same read made again
\* returns the same.
C22_ReadsPure ==
    [][last'.op \in {"Fetch", "Peek"} =>
          /\ UNCHANGED <<schema, saltTable, storage, salt, pc>>
          /\ ReadAgain' = [out |-> last'.out, err |-> last'.err, dec |-> last'.dec]]_vars

\* Fetch has decrypted and returned a value while both keys have a record
C22_Witness ==
    /\ last.op = "Fetch" /\ last.dec /\ last.err = NoErr /\ last.out # EmptyString
    /\ \A k \in Keys : KindOf(storage, k) # "none"

====
